---- MODULE Spec2Model ----
(***************************************************************************)
(* Model of thread_scraper.py (RedditThreadScraper).                       *)
(*                                                                         *)
(* Part 1: scrape_submission / process_comment_tree.  The recursion of     *)
(* process_comment_tree is modelled with an explicit stack of Python       *)
(* frames, one frame per active call, each holding the call's locals.      *)
(***************************************************************************)
EXTENDS Integers, Sequences, FiniteSets, TLC

\* ------------------------------------------------------------------ bounds
\* Largest number of comments of an enumerated comment forest.
MaxNodes == 4

\* ------------------------------------------------- interpreter parameters
\* CPython's default recursion limit; the script never changes it.
RecursionLimit == 1000
\* Python frames below process_comment_tree's first call:
\* <module>, main, scrape_submission.
BaseFrames == 3

VARIABLES
    n,              \* number of comments of the thread; their ids are 1..n
    parent,         \* parent[i]: id of i's parent comment, 0 for the submission
    more,           \* comments the API hides behind a MoreComments placeholder
    failing,        \* listings (0 = the submission's) whose replace_more raises
    pc,             \* "start", "loop", "done", "raised" (scrape_submission)
    top,            \* index of the next top-level comment (line 152)
    stack,          \* active process_comment_tree calls, innermost last
    all_comments,   \* self.all_comments
    comment_count,  \* self.comment_count
    warnings,       \* ids printed by the warning of line 89, in order
    result,         \* the dictionary scrape_submission returns
    results,        \* the dictionary handed to save_results and search_user
    files,          \* the output files: their content, or NoFile
    attempted,      \* the exports save_results has opened, in order
    io_raised,      \* an I/O error has left save_results
    found,          \* what search_user returned
    query,          \* the username search_user was given
    fail_at,        \* the export whose writing raised (0: none)
    given,          \* the dictionary as it was when it was handed in
    phase           \* "idle", "ready", "saved", "searched"

scrapeVars == <<n, parent, more, failing, pc, top, stack, all_comments,
                comment_count, warnings, result>>

exportVars == <<results, files, attempted, io_raised, found, query, fail_at,
                given, phase>>

vars == <<scrapeVars, exportVars>>

\* ------------------------------------------------------- the API's listing
Ids == [i \in 1..n |-> i]

\* Replies of p the listing holds as real comments before any resolution.
Loaded(p) == SelectSeq(Ids, LAMBDA i : parent[i] = p /\ i \notin more)

\* Replies of p a MoreComments placeholder of p's listing stands for.
Hidden(p) == SelectSeq(Ids, LAMBDA i : parent[i] = p /\ i \in more)

\* A listing whose placeholder was dropped instead of resolved.
RepliesUnresolved(p) == Loaded(p)

\* The listing of p once replace_more(limit=None) has succeeded on it: the
\* placeholder, last in the listing, is replaced by the comments it stood for.
Replies(p) == Loaded(p) \o Hidden(p)

\* -------------------------------------------------------------- the code
extract_comment_data(c) ==
    [id |-> c, parent_id |-> parent[c], depth |-> 0]

\* A call made with `frames` process_comment_tree frames already active needs
\* one frame for itself and one for extract_comment_data, its first call.
RecursionError(frames) == BaseFrames + frames + 2 > RecursionLimit

\* The depth handed to the call for a reply (line 87).
ChildDepthSame(depth) == depth

ChildDepth(depth) == depth + 1

\* comments.extend(...) of line 87 and self.all_comments.extend(...) of 153.
ExtendFront(list, returned) == returned \o list

Extend(list, returned) == list \o returned

\* A frame whose own record is lost when replace_more raises.
process_comment_tree_enter_lost(c, depth) ==
    [node     |-> c,
     depth    |-> depth,
     comments |-> IF c \in failing
                  THEN <<>>
                  ELSE <<[extract_comment_data(c) EXCEPT !.depth = depth]>>,
     next     |-> 1,
     looping  |-> c \notin failing]

\* Lines 70-84 of a call process_comment_tree(c, depth): the frame it leaves.
\* looping is FALSE when replace_more raised and the handler of line 88 ran.
process_comment_tree_enter(c, depth) ==
    [node     |-> c,
     depth    |-> depth,
     comments |-> <<[extract_comment_data(c) EXCEPT !.depth = depth]>>,
     next     |-> 1,
     looping  |-> c \notin failing]

Warned(c) == IF c \in failing THEN Append(warnings, c) ELSE warnings

NoFile == [status |-> "none", text |-> <<>>]

\* The exporters are not running.
ExportIdle ==
    /\ results = [comments |-> <<>>]
    /\ files = [json |-> NoFile, txt |-> NoFile, csv |-> NoFile, top |-> NoFile]
    /\ attempted = <<>>
    /\ io_raised = FALSE
    /\ found = <<>>
    /\ query = <<>>
    /\ fail_at = 0
    /\ given = results
    /\ phase = "idle"

Init ==
    /\ n \in 1..MaxNodes
    /\ parent \in [1..n -> 0..(n - 1)]
    /\ \A i \in 1..n : parent[i] < i
    /\ more \in SUBSET (1..n)
    /\ failing \in SUBSET {p \in 0..n : \E i \in more : parent[i] = p}
    /\ pc = "start"
    /\ top = 1
    /\ stack = <<>>
    /\ all_comments = <<>>
    /\ comment_count = 0
    /\ warnings = <<>>
    /\ result = [comments |-> <<>>, total_comments |-> 0]
    /\ ExportIdle

\* A single chain of RecursionLimit nested replies, nothing hidden, no failure.
InitDeep ==
    /\ n = RecursionLimit
    /\ parent = [i \in 1..n |-> i - 1]
    /\ more = {}
    /\ failing = {}
    /\ pc = "start"
    /\ top = 1
    /\ stack = <<>>
    /\ all_comments = <<>>
    /\ comment_count = 0
    /\ warnings = <<>>
    /\ result = [comments |-> <<>>, total_comments |-> 0]
    /\ ExportIdle

\* scrape_submission, lines 142-148.
scrape_submission_start ==
    /\ pc = "start"
    /\ comment_count' = 0
    /\ all_comments' = <<>>
    /\ pc' = IF 0 \in failing THEN "raised" ELSE "loop"
    /\ UNCHANGED <<exportVars, n, parent, more, failing, top, stack, warnings, result>>

\* scrape_submission, lines 152-153: the call for the next top-level comment.
scrape_submission_loop ==
    /\ pc = "loop"
    /\ stack = <<>>
    /\ top <= Len(Replies(0))
    /\ IF RecursionError(0)
       THEN /\ pc' = "raised"
            /\ UNCHANGED <<top, stack, comment_count, warnings>>
       ELSE /\ stack' = <<process_comment_tree_enter(Replies(0)[top], 0)>>
            /\ comment_count' = comment_count + 1
            /\ warnings' = Warned(Replies(0)[top])
            /\ top' = top + 1
            /\ pc' = pc
    /\ UNCHANGED <<exportVars, n, parent, more, failing, all_comments, result>>

\* process_comment_tree, lines 86-89: the call for the next reply.  An
\* exception leaving the call is caught by the caller's handler (line 88).
process_comment_tree_reply ==
    /\ stack # <<>>
    /\ LET k == Len(stack)
           f == stack[k]
       IN /\ f.looping
          /\ f.next <= Len(Replies(f.node))
          /\ IF RecursionError(k)
             THEN /\ stack' = [stack EXCEPT ![k].looping = FALSE]
                  /\ warnings' = Append(warnings, f.node)
                  /\ UNCHANGED comment_count
             ELSE /\ stack' = Append([stack EXCEPT ![k].next = f.next + 1],
                                     process_comment_tree_enter(Replies(f.node)[f.next],
                                              ChildDepth(f.depth)))
                  /\ comment_count' = comment_count + 1
                  /\ warnings' = Warned(Replies(f.node)[f.next])
    /\ UNCHANGED <<exportVars, n, parent, more, failing, pc, top, all_comments, result>>

\* process_comment_tree, line 91, and the extend of its caller (87 or 153).
process_comment_tree_return ==
    /\ stack # <<>>
    /\ LET k == Len(stack)
           f == stack[k]
       IN /\ ~f.looping \/ f.next > Len(Replies(f.node))
          /\ IF k = 1
             THEN /\ all_comments' = Extend(all_comments, f.comments)
                  /\ stack' = <<>>
             ELSE /\ stack' = [SubSeq(stack, 1, k - 1) EXCEPT
                                 ![k - 1].comments = Extend(@, f.comments)]
                  /\ UNCHANGED all_comments
    /\ UNCHANGED <<exportVars, n, parent, more, failing, pc, top, comment_count,
                   warnings, result>>

\* scrape_submission, lines 155-162.
scrape_submission_return ==
    /\ pc = "loop"
    /\ stack = <<>>
    /\ top > Len(Replies(0))
    /\ pc' = "done"
    /\ result' = [comments |-> all_comments, total_comments |-> Len(all_comments)]
    /\ UNCHANGED <<exportVars, n, parent, more, failing, top, stack, all_comments,
                   comment_count, warnings>>

Next ==
    \/ scrape_submission_start
    \/ scrape_submission_loop
    \/ process_comment_tree_reply
    \/ process_comment_tree_return
    \/ scrape_submission_return

Spec == Init /\ [][Next]_vars

SpecDeep == InitDeep /\ [][Next]_vars

\* ===================================================================
\* Part 2: save_results and search_user.
\*
\* A string is a sequence of characters.  The characters the code treats
\* specially are named; every other character is an ordinary one.
DQ == "dquote"
NL == "newline"
SP == " "
COMMA == ","

\* ------------------------------------------------------------------ bounds
\* Longest author and body of the exhaustively enumerated one-comment results.
MaxLen == 2
\* Most comments of the enumerated several-comment results.
MaxComments == 2

\* ------------------------------------------------------ program constants
\* sorted_comments[:50]
TopN == 50
\* comment['body'][:500]
BodyLimit == 500

\* ------------------------------------------------------- Python built-ins
Min(a, b) == IF a < b THEN a ELSE b

\* s[:k]
Prefix(s, k) == SubSeq(s, 1, Min(k, Len(s)))

\* str.replace(old, new) for a one-character old: every occurrence of old is
\* replaced by the characters of new, the rest is kept.
RECURSIVE Replace(_, _, _)
Replace(s, old, new) ==
    IF Len(s) = 0 THEN <<>>
    ELSE IF Len(s) = 1 THEN (IF s[1] = old THEN new ELSE s)
    ELSE LET h == Len(s) \div 2
         IN Replace(SubSeq(s, 1, h), old, new)
              \o Replace(SubSeq(s, h + 1, Len(s)), old, new)

\* str.lower() on the letters of the model's alphabet.
LowerChar(ch) == CASE ch = "A" -> "a" [] ch = "B" -> "b" [] OTHER -> ch

Lower(s) == [i \in 1..Len(s) |-> LowerChar(s[i])]

Digit(d) == <<"0", "1", "2", "3", "4", "5", "6", "7", "8", "9">>[d + 1]

\* f"{i}" for an integer i.
RECURSIVE Digits(_)
Digits(i) == IF i < 10 THEN <<Digit(i)>> ELSE Digits(i \div 10) \o <<Digit(i % 10)>>

IntStr(i) == IF i < 0 THEN <<"-">> \o Digits(0 - i) ELSE Digits(i)

\* f"{b}" for a bool b.
BoolStr(b) == IF b THEN <<"True">> ELSE <<"False">>

\* A list sorted the other way round and then reversed: equal keys end up in
\* reverse order.
RECURSIVE SortAscThenReverse(_)
SortAscThenReverse(list) ==
    LET RECURSIVE Insert(_, _)
        Insert(c, sorted) ==
            IF sorted = <<>> THEN <<c>>
            ELSE IF Head(sorted).score >= c.score
                 THEN <<Head(sorted)>> \o Insert(c, Tail(sorted))
                 ELSE <<c>> \o sorted
    IN IF list = <<>> THEN <<>>
       ELSE Insert(Head(list), SortAscThenReverse(Tail(list)))

\* sorted(list, key=lambda x: x['score'], reverse=True): a new list, by
\* descending score; the sort is stable, also with reverse=True.
RECURSIVE sorted_comments(_)
sorted_comments(list) ==
    LET RECURSIVE Insert(_, _)
        \* c goes after every element already placed whose score is >= its own
        Insert(c, sorted) ==
            IF sorted = <<>> THEN <<c>>
            ELSE IF Head(sorted).score >= c.score
                 THEN <<Head(sorted)>> \o Insert(c, Tail(sorted))
                 ELSE <<c>> \o sorted
    IN IF list = <<>> THEN <<>>
       ELSE Insert(list[Len(list)], sorted_comments(SubSeq(list, 1, Len(list) - 1)))

\* ------------------------------------------------------------ the exports
\* json.dump(results, ...): the whole structure (lines 168-170).
JsonText(r) == [dump |-> r]

\* The transcript (lines 174-213): the header block, then one block per
\* comment, indented two spaces per level.
TxtText(r) ==
    [title    |-> r.post.title,
     count    |-> Len(r.comments),
     comments |-> [i \in 1..Len(r.comments) |->
                     LET c == r.comments[i]
                     IN [indent |-> 2 * c.depth, score |-> c.score,
                         author |-> c.author, op |-> c.is_submitter,
                         depth |-> c.depth, body |-> c.body, id |-> c.id]]]

CsvHeader ==
    <<"id", COMMA, "author", COMMA, "score", COMMA, "depth", COMMA,
      "is_submitter", COMMA, "created_datetime", COMMA, "body", NL>>

\* An author written as it is.
CsvAuthorRaw(c) == c.author

\* Line 223.
CsvAuthor(c) == Replace(c.author, DQ, <<DQ, DQ>>)

\* Line 222.
CsvBody(c) == Replace(Replace(c.body, DQ, <<DQ, DQ>>), NL, <<SP>>)

\* Lines 224-225.
CsvRow(c) ==
    <<DQ>> \o c.id \o <<DQ, COMMA, DQ>> \o CsvAuthor(c) \o <<DQ, COMMA>>
        \o IntStr(c.score) \o <<COMMA>> \o IntStr(c.depth) \o <<COMMA>>
        \o BoolStr(c.is_submitter) \o <<COMMA, DQ>> \o c.created_datetime
        \o <<DQ, COMMA, DQ>> \o CsvBody(c) \o <<DQ, NL>>

\* Lines 219-225.
RECURSIVE CsvRows(_)
CsvRows(list) == IF list = <<>> THEN <<>> ELSE CsvRow(Head(list)) \o CsvRows(Tail(list))

CsvText(r) == CsvHeader \o CsvRows(r.comments)

\* A summary whose comments of equal score come in reverse order.
TopTextTiesReversed(r) ==
    LET top50 == Prefix(SortAscThenReverse(r.comments), TopN)
    IN [i \in 1..Len(top50) |->
          [rank |-> i, author |-> top50[i].author, score |-> top50[i].score,
           depth |-> top50[i].depth, body |-> Prefix(top50[i].body, BodyLimit),
           permalink |-> top50[i].permalink]]

\* The summary (lines 231-241).
TopText(r) ==
    LET top50 == Prefix(sorted_comments(r.comments), TopN)
    IN [i \in 1..Len(top50) |->
          [rank |-> i, author |-> top50[i].author, score |-> top50[i].score,
           depth |-> top50[i].depth, body |-> Prefix(top50[i].body, BodyLimit),
           permalink |-> top50[i].permalink]]

ExportNames == <<"json", "txt", "csv", "top">>

ExportText(k, r) ==
    CASE k = 1 -> JsonText(r) [] k = 2 -> TxtText(r)
      [] k = 3 -> CsvText(r)  [] k = 4 -> TopText(r)

\* A file whose writing was cut short by an error.
Partial == [status |-> "partial", text |-> <<>>]

\* An error in one export that is caught, so that the others still run.
ExportsDoneSwallowed(failAt) == {k \in 1..4 : k # failAt}

\* The exports that complete when the export failAt (0: none) raises.
ExportsDone(failAt) == {k \in 1..4 : failAt = 0 \/ k < failAt}

\* A comparison that lowers the author only.
MatchesAuthorOnly(c, username) == Lower(c.author) = username

\* Line 248.
Matches(c, username) == Lower(c.author) = Lower(username)

\* ------------------------------------------------------------- the inputs
Strs(chars, lo, hi) == UNION {[1..k -> chars] : k \in lo..hi}

AuthorChars == {"a", "A", DQ, NL}
BodyChars == {"x", DQ, NL, COMMA}

Metas ==
    {[score |-> 0 - 12, depth |-> 0, op |-> FALSE],
     [score |-> 0, depth |-> 1, op |-> TRUE],
     [score |-> 105, depth |-> 12, op |-> FALSE]}

Post == [title |-> <<"t">>]

Comment(i, author, body, meta) ==
    [id               |-> <<"c">> \o Digits(i),
     author           |-> author,
     body             |-> body,
     score            |-> meta.score,
     depth            |-> meta.depth,
     is_submitter     |-> meta.op,
     created_datetime |-> <<"2024-01-01T00:00:00">>,
     permalink        |-> <<"/r/x/comments/">> \o Digits(i)]

\* Every result of one comment with a short author and body.
SmallResults ==
    {[post |-> Post, comments |-> <<Comment(1, a, b, m)>>] :
        a \in Strs(AuthorChars, 1, MaxLen), b \in Strs(BodyChars, 0, MaxLen),
        m \in Metas}

MultiAuthors == {<<"a">>, <<"A">>, <<"a", DQ, NL>>}
MultiBodies == {<<"x">>, <<DQ, COMMA, NL>>}

\* Every result of up to MaxComments comments over a few authors and bodies.
MultiResults ==
    {[post |-> Post,
      comments |-> [i \in 1..Len(pick) |->
                      Comment(i, pick[i][1], pick[i][2], pick[i][3])]] :
        pick \in UNION {[1..k -> MultiAuthors \X MultiBodies \X Metas] :
                          k \in 0..MaxComments}}

ScorePatterns == {"same", "up", "mod"}

PatternScore(pattern, i) ==
    CASE pattern = "same" -> 5 [] pattern = "up" -> i [] pattern = "mod" -> i % 3

\* A body of len characters, the ones after the first BodyLimit marked.
LongBody(len) == [k \in 1..len |-> IF k <= BodyLimit THEN "x" ELSE "y"]

\* Results around the summary's limits: about TopN comments, every tenth with
\* a body of about BodyLimit characters.
BigResults ==
    {[post |-> Post,
      comments |-> [i \in 1..cnt |->
                      Comment(i, <<"a">>,
                              IF i % 10 = 1 THEN LongBody(len) ELSE <<"x">>,
                              [score |-> PatternScore(pattern, i),
                               depth |-> i % 4, op |-> FALSE])]] :
        cnt \in {TopN - 1, TopN, TopN + 1},
        len \in {BodyLimit - 1, BodyLimit, BodyLimit + 1},
        pattern \in ScorePatterns}

Names == Strs({"a", "A"}, 1, MaxLen)

ScrapeIdle ==
    /\ n = 0
    /\ parent = <<>>
    /\ more = {}
    /\ failing = {}
    /\ pc = "idle"
    /\ top = 1
    /\ stack = <<>>
    /\ all_comments = <<>>
    /\ comment_count = 0
    /\ warnings = <<>>
    /\ result = [comments |-> <<>>, total_comments |-> 0]

ExportReady ==
    /\ files = [json |-> NoFile, txt |-> NoFile, csv |-> NoFile, top |-> NoFile]
    /\ attempted = <<>>
    /\ io_raised = FALSE
    /\ found = <<>>
    /\ query = <<>>
    /\ fail_at = 0
    /\ given = results
    /\ phase = "ready"

InitExport ==
    /\ ScrapeIdle
    /\ results \in SmallResults \cup MultiResults
    /\ ExportReady

InitTop ==
    /\ ScrapeIdle
    /\ results \in MultiResults \cup BigResults
    /\ ExportReady

\* save_results (lines 164-243).  failAt is the export whose open or write
\* raises an I/O error (0: none); opened tells whether its file was created.
save_results ==
    /\ phase = "ready"
    /\ \E failAt \in 0..4, opened \in BOOLEAN :
          /\ failAt = 0 => ~opened
          /\ LET File(k) == IF k \in ExportsDone(failAt)
                            THEN [status |-> "written", text |-> ExportText(k, results)]
                            ELSE IF k = failAt /\ opened THEN Partial
                            ELSE NoFile
             IN files' = [json |-> File(1), txt |-> File(2), csv |-> File(3),
                          top |-> File(4)]
          /\ attempted' = SelectSeq(ExportNames,
                LAMBDA name : \E k \in ExportsDone(failAt) \cup {failAt} :
                                 k # 0 /\ ExportNames[k] = name)
          /\ io_raised' = (failAt # 0)
          /\ fail_at' = failAt
    /\ phase' = "saved"
    /\ UNCHANGED <<scrapeVars, results, found, query, given>>

\* search_user (lines 245-248), called by main once save_results returned.
search_user ==
    /\ phase = "saved"
    /\ ~io_raised
    /\ \E username \in Names :
          /\ found' = SelectSeq(results.comments, LAMBDA c : Matches(c, username))
          /\ query' = username
    /\ phase' = "searched"
    /\ UNCHANGED <<scrapeVars, results, files, attempted, io_raised, fail_at, given>>

NextExport == save_results \/ search_user

SpecExport == InitExport /\ [][NextExport]_vars

SpecTop == InitTop /\ [][NextExport]_vars

\* ------------------------------------------------ the flattening, as stated
\* These definitions restate the thread from parent, more and failing alone;
\* they do not read the frames.
Ancestors(c) ==
    LET RECURSIVE Up(_)
        Up(i) == IF i = 0 THEN {} ELSE {parent[i]} \cup Up(parent[i])
    IN Up(c)

\* The children of p in listing order: those listed as comments, by id, then
\* those behind the placeholder, by id.
Listing(p) ==
    LET kids == {i \in 1..n : parent[i] = p}
        Before(i, j) == \/ i \notin more /\ j \in more
                        \/ (i \in more <=> j \in more) /\ i < j
        RECURSIVE Order(_)
        Order(S) == IF S = {} THEN <<>>
                    ELSE LET first == CHOOSE i \in S : \A j \in S \ {i} : Before(i, j)
                         IN <<first>> \o Order(S \ {first})
    IN Order(kids)

RECURSIVE PreOrder(_, _)
PreOrder(c, depth) ==
    LET RECURSIVE Each(_)
        Each(kids) == IF kids = <<>> THEN <<>>
                      ELSE PreOrder(Head(kids), depth + 1) \o Each(Tail(kids))
    IN <<[id |-> c, parent_id |-> parent[c], depth |-> depth]>> \o Each(Listing(c))

\* The failure-free result: the top-level trees, concatenated in listing order.
FullPreOrder ==
    LET RECURSIVE Each(_)
        Each(kids) == IF kids = <<>> THEN <<>>
                      ELSE PreOrder(Head(kids), 0) \o Each(Tail(kids))
    IN Each(Listing(0))

IdsOf(seq) == {seq[i].id : i \in 1..Len(seq)}

\* The comments whose replace_more was called and raised (all are visited only
\* when no ancestor's resolution failed).
FailedAt == {c \in failing \ {0} : Ancestors(c) \cap failing = {}}

Done == pc = "done"

\* C1: in the returned comment sequence every top-level comment has depth 0
\* and every other comment has depth one greater than the depth recorded for
\* its parent comment, also when some continuation resolution failed.
C1_DepthIsParentPlusOne ==
    Done =>
        \A i \in 1..Len(result.comments) :
            LET c == result.comments[i]
            IN IF c.parent_id = 0
               THEN c.depth = 0
               ELSE \E j \in 1..Len(result.comments) :
                        /\ result.comments[j].id = c.parent_id
                        /\ c.depth = result.comments[j].depth + 1

\* A result with a comment at depth 2 below a comment whose resolution failed
\* elsewhere in the thread.
C1_Witness ==
    /\ Done
    /\ warnings # <<>>
    /\ \E i \in 1..Len(result.comments) : result.comments[i].depth = 2

\* C2: the returned sequence holds no comment id twice, its length is the
\* number of comments visited, and when no continuation resolution failed
\* every comment of the resolved thread is in it.
C2_NoDuplicateNoOmission ==
    Done =>
        /\ \A i, j \in 1..Len(result.comments) :
              result.comments[i].id = result.comments[j].id => i = j
        /\ Len(result.comments) = comment_count
        /\ result.total_comments = comment_count
        /\ FailedAt = {} => IdsOf(result.comments) = 1..n

\* A failure-free scrape of a thread that has hidden and nested comments.
C2_Witness ==
    /\ Done
    /\ FailedAt = {}
    /\ n = MaxNodes
    /\ more # {}
    /\ \E i \in 1..n : parent[i] # 0

\* C3: a call returns the pre-order traversal of its comment's subtree (the
\* comment first, then each reply's subtree in listing order, one deeper,
\* hidden replies resolved), and scrape_submission concatenates the top-level
\* trees in listing order; the thread top > (reply1 > [more: reply1.1], reply2)
\* flattens to top, reply1, reply1.1, reply2 at depths 0, 1, 2, 1.
C3_PreOrder ==
    /\ (failing = {} /\ stack # <<>>) =>
          LET f == stack[Len(stack)]
          IN (f.next > Len(Replies(f.node))) => f.comments = PreOrder(f.node, f.depth)
    /\ (Done /\ failing = {}) => result.comments = FullPreOrder
    /\ (Done /\ failing = {} /\ parent = <<0, 1, 2, 1>> /\ more = {3}) =>
          /\ [i \in 1..4 |-> result.comments[i].id] = <<1, 2, 3, 4>>
          /\ [i \in 1..4 |-> result.comments[i].depth] = <<0, 1, 2, 1>>

\* The scenario of C3 has been scraped.
C3_Witness ==
    Done /\ failing = {} /\ parent = <<0, 1, 2, 1>> /\ more = {3}
         /\ Len(result.comments) = 4

\* C4: when continuation resolution raises at comments N (and not at the
\* submission's own listing) the error stays inside process_comment_tree: the
\* scrape completes, a warning names each N, each N is in the result, and the
\* result is the failure-free result without the descendants of the N's, all
\* other comments in their normal order.
C4_FailureDropsOnlyDescendants ==
    /\ (0 \notin failing) => pc # "raised"
    /\ Done =>
          LET InResult(c) == \E i \in 1..Len(result.comments) : result.comments[i] = c
          IN /\ {warnings[i] : i \in 1..Len(warnings)} = FailedAt
             /\ FailedAt \subseteq IdsOf(result.comments)
             /\ result.comments = SelectSeq(FullPreOrder, InResult)
             /\ \A i \in 1..Len(FullPreOrder) :
                   Ancestors(FullPreOrder[i].id) \cap FailedAt = {}
                       => InResult(FullPreOrder[i])

\* A failure at a comment that has an earlier sibling, a later sibling and a
\* hidden reply.
C4_Witness ==
    /\ Done
    /\ \E N \in FailedAt :
          /\ \E i \in 1..n : parent[i] = N
          /\ \E a, b \in IdsOf(result.comments) :
                /\ parent[a] = parent[N] /\ parent[b] = parent[N]
                /\ a < N /\ N < b
          /\ \A i \in 1..n : parent[i] = N => i \notin IdsOf(result.comments)

\* C5: when resolving the placeholders of a comment's replies fails, the
\* replies of that comment the listing already held as comments still appear
\* in the result.
C5_ResolvedChildrenKept ==
    Done =>
        \A N \in FailedAt :
            \A i \in 1..Len(Loaded(N)) : Loaded(N)[i] \in IdsOf(result.comments)

\* C9: a chain of n nested replies is returned whole, depths 0..n-1, with no
\* warning and no abort, whatever n is.
C9_NoDepthLimit ==
    (failing = {} /\ \A i \in 1..n : parent[i] = i - 1) =>
        /\ pc # "raised"
        /\ Done =>
              /\ Len(result.comments) = n
              /\ \A i \in 1..Len(result.comments) :
                    /\ result.comments[i].id = i
                    /\ result.comments[i].depth = i - 1

\* --------------------------------------------------- the exports, as stated
Saved == phase \in {"saved", "searched"}

Written(name) == files[name].status = "written"

\* C6: the summary lists the comments by descending score, comments of equal
\* score in their original relative order, holds exactly min(50, number of
\* comments) entries, the highest ranked ones, and each listed body is the
\* first at most 500 characters of the comment's body.
C6_TopSummary ==
    (Saved /\ Written("top")) =>
        LET t == files.top.text
            cs == given.comments
            Src(e) == CHOOSE k \in 1..Len(cs) : cs[k].permalink = e.permalink
            Listed == {Src(t[i]) : i \in 1..Len(t)}
        IN /\ Len(t) = Min(50, Len(cs))
           /\ \A i \in 1..Len(t) :
                /\ \E k \in 1..Len(cs) : cs[k].permalink = t[i].permalink
                /\ t[i].score = cs[Src(t[i])].score
                /\ t[i].author = cs[Src(t[i])].author
                /\ Len(t[i].body) <= 500
                /\ Len(t[i].body) = Min(500, Len(cs[Src(t[i])].body))
                /\ t[i].body = SubSeq(cs[Src(t[i])].body, 1, Len(t[i].body))
           /\ \A i, j \in 1..Len(t) :
                i < j => \/ t[i].score > t[j].score
                         \/ t[i].score = t[j].score /\ Src(t[i]) < Src(t[j])
           /\ \A k \in (1..Len(cs)) \ Listed : \A l \in Listed :
                \/ cs[l].score > cs[k].score
                \/ cs[l].score = cs[k].score /\ l < k

\* A summary of more than 50 comments, with equal scores among the listed ones
\* and a listed body that was longer than 500 characters.
C6_Witness ==
    /\ Saved /\ Written("top")
    /\ Len(given.comments) > 50
    /\ \E i, j \in 1..Len(files.top.text) :
          i # j /\ files.top.text[i].score = files.top.text[j].score
    /\ \E i \in 1..Len(files.top.text) : \E k \in 1..Len(given.comments) :
          /\ given.comments[k].permalink = files.top.text[i].permalink
          /\ Len(given.comments[k].body) > 500

\* Two characters that are the same letter in either case.
SameLetter(x, y) == x = y \/ {x, y} \in {{"a", "A"}, {"b", "B"}}

EqualIgnoringCase(s, t) ==
    Len(s) = Len(t) /\ \A i \in 1..Len(s) : SameLetter(s[i], t[i])

\* C7: search_user returns exactly the comments whose author equals the name
\* ignoring case, in their original order, and the empty sequence when no
\* author matches.
C7_SearchUser ==
    phase = "searched" =>
        LET cs == results.comments
            hits == {i \in 1..Len(cs) : EqualIgnoringCase(cs[i].author, query)}
            Nth(k) == CHOOSE i \in hits : Cardinality({j \in hits : j <= i}) = k
        IN /\ Len(found) = Cardinality(hits)
           /\ \A k \in 1..Len(found) : found[k] = cs[Nth(k)]

\* A search that matched an author written in another case than the name and
\* passed over another comment.
C7_Witness ==
    /\ phase = "searched"
    /\ Len(found) >= 1
    /\ Len(found) < Len(results.comments)
    /\ \E k \in 1..Len(found) : found[k].author # query

\* A standard CSV reader: fields separated by commas, records by newlines, a
\* field in double quotes may hold commas and newlines, a doubled quote in it
\* stands for one quote.
RECURSIVE CsvRead(_, _, _, _, _)
CsvRead(text, i, st, field, row) ==
    IF i > Len(text)
    THEN IF st = "start_record" THEN <<>> ELSE <<Append(row, field)>>
    ELSE LET ch == text[i]
             EndRecord == <<Append(row, field)>>
                             \o CsvRead(text, i + 1, "start_record", <<>>, <<>>)
             EndField == CsvRead(text, i + 1, "start_field", <<>>, Append(row, field))
             Add(next) == CsvRead(text, i + 1, next, Append(field, ch), row)
         IN CASE st \in {"start_record", "start_field"} ->
                   (IF ch = NL THEN (IF st = "start_record"
                                     THEN <<<<>>>> \o CsvRead(text, i + 1, "start_record",
                                                             <<>>, <<>>)
                                     ELSE EndRecord)
                    ELSE IF ch = DQ THEN CsvRead(text, i + 1, "in_quoted", <<>>, row)
                    ELSE IF ch = COMMA THEN EndField
                    ELSE Add("in_field"))
              [] st = "in_field" ->
                   (IF ch = NL THEN EndRecord
                    ELSE IF ch = COMMA THEN EndField
                    ELSE Add("in_field"))
              [] st = "in_quoted" ->
                   (IF ch = DQ THEN CsvRead(text, i + 1, "quote_in_quoted", field, row)
                    ELSE Add("in_quoted"))
              [] st = "quote_in_quoted" ->
                   (IF ch = DQ THEN Add("in_quoted")
                    ELSE IF ch = NL THEN EndRecord
                    ELSE IF ch = COMMA THEN EndField
                    ELSE Add("in_field"))

IsDigit(ch) == \E d \in 0..9 : Digit(d) = ch

IsInt(s) ==
    /\ Len(s) >= 1
    /\ \A i \in 2..Len(s) : IsDigit(s[i])
    /\ IsDigit(s[1]) \/ (s[1] = "-" /\ Len(s) >= 2)

RECURSIVE NatValue(_)
NatValue(s) ==
    IF s = <<>> THEN 0
    ELSE 10 * NatValue(SubSeq(s, 1, Len(s) - 1))
           + (CHOOSE d \in 0..9 : Digit(d) = s[Len(s)])

IntValue(s) == IF s[1] = "-" THEN 0 - NatValue(Tail(s)) ELSE NatValue(s)

\* C8: a standard CSV reader recovers from the CSV file the header and one
\* record per comment, in order, whose id, author, score and depth are those
\* of the comment, also when authors and bodies hold quotes and newlines.
C8_CsvRoundTrip ==
    (Saved /\ Written("csv")) =>
        LET rows == CsvRead(files.csv.text, 1, "start_record", <<>>, <<>>)
            cs == results.comments
        IN /\ Len(rows) = 1 + Len(cs)
           /\ \A i \in 1..Len(cs) :
                LET r == rows[i + 1]
                IN /\ Len(r) = 7
                   /\ r[1] = cs[i].id
                   /\ r[2] = cs[i].author
                   /\ IsInt(r[3]) /\ IntValue(r[3]) = cs[i].score
                   /\ IsInt(r[4]) /\ IntValue(r[4]) = cs[i].depth

HasChar(s, ch) == \E i \in 1..Len(s) : s[i] = ch

\* A CSV file of several comments, one of them with a quote and a newline
\* both in its author and in its body and with a negative score.
C8_Witness ==
    /\ Saved /\ Written("csv")
    /\ Len(results.comments) >= 2
    /\ \E i \in 1..Len(results.comments) :
          LET c == results.comments[i]
          IN /\ HasChar(c.author, DQ) /\ HasChar(c.author, NL)
             /\ HasChar(c.body, DQ) /\ HasChar(c.body, NL)
             /\ c.score < 0

\* C10: save_results opens the exports in the order JSON, transcript, CSV,
\* summary; when export k raises an I/O error the error leaves save_results,
\* no later export is attempted, the earlier ones are written, and the
\* dictionary passed in is unchanged in every case.
C10_ExportsAbortInOrder ==
    Saved =>
        /\ attempted = SubSeq(ExportNames, 1, IF fail_at = 0 THEN 4 ELSE fail_at)
        /\ io_raised <=> fail_at # 0
        /\ \A k \in 1..4 :
              /\ (fail_at = 0 \/ k < fail_at) => Written(ExportNames[k])
              /\ (fail_at # 0 /\ k > fail_at) => files[ExportNames[k]].status = "none"
              /\ (fail_at # 0 /\ k = fail_at) => ~Written(ExportNames[k])
        /\ results = given

\* The CSV export of a result with comments raised: JSON and transcript are
\* written, the summary was never opened.
C10_Witness ==
    /\ Saved
    /\ fail_at = 3
    /\ io_raised
    /\ Len(given.comments) >= 1
    /\ Written("json") /\ Written("txt")
    /\ files.top.status = "none"

====
